---- MODULE Spec2Model ----
(***************************************************************************)
(* Deep Interest Network (deepctr_torch/models/din.py).                    *)
(*                                                                         *)
(* The module models the DIN class: the constructor call (keyword binding  *)
(* against the signature, the column partitioning, the embedding lookups   *)
(* it issues, the layers it builds) and forward (the stage pipeline).      *)
(*                                                                         *)
(* Tensors are symbolic terms [op, args]: a stage's output is the term of  *)
(* the stage applied to the terms of its inputs.  The functions imported   *)
(* from ..inputs, ..layers and .basemodel are not part of din.py; a call   *)
(* to one of them is recorded with the arguments din.py passes, and its    *)
(* result is an opaque term.  Their own failure modes are not modelled.    *)
(***************************************************************************)
EXTENDS FiniteSets, Integers, Sequences, TLC

VARIABLES pc, kwargs, params, error, lookups, self,
          X, calls, dense_value_list, hist, deep_input_emb,
          dnn_input, dnn_output, dnn_logit, y_pred, result

vars == <<pc, kwargs, params, error, lookups, self,
          X, calls, dense_value_list, hist, deep_input_emb,
          dnn_input, dnn_output, dnn_logit, y_pred, result>>

locals == <<X, calls, dense_value_list, hist, deep_input_emb,
            dnn_input, dnn_output, dnn_logit, y_pred, result>>

----------------------------------------------------------------------------
(* Bounds of the model *)

\* longest dnn_hidden_units list passed to the constructor
MaxLayers == 2
\* largest layer width in a dnn_hidden_units list passed to the constructor
MaxUnits == 2
\* most optional keyword arguments in one constructor call
MaxKwargs == 1
\* longest history_feature_list
MaxHist == 2

----------------------------------------------------------------------------
(* Symbolic tensors *)

T(op, args) == [op |-> op, args |-> args]

None == T("None", <<>>)

----------------------------------------------------------------------------
(* Feature columns *)

SparseFeat(name) == [class |-> "SparseFeat", name |-> name]

VarLenSparseFeat(name) == [class |-> "VarLenSparseFeat", name |-> name]

DenseFeat(name) == [class |-> "DenseFeat", name |-> name]

\* the columns a caller draws dnn_feature_columns from, in list order
AllColumns == <<SparseFeat("item"), VarLenSparseFeat("hist_item"),
                VarLenSparseFeat("tags"), DenseFeat("price")>>

\* the names a caller draws history_feature_list from
HistNames == {"item", "cate"}

\* the input batches
Batches == {"X1", "X2"}

RECURSIVE SubSeq_by(_, _, _)
SubSeq_by(s, keep, i) ==
    IF i > Len(s) THEN <<>>
    ELSE (IF i \in keep THEN <<s[i]>> ELSE <<>>) \o SubSeq_by(s, keep, i + 1)

ColumnLists == { SubSeq_by(AllColumns, keep, 1) : keep \in SUBSET (1..Len(AllColumns)) }

HistLists == UNION { [1..n -> HistNames] : n \in 0..MaxHist }

HiddenUnitLists == UNION { [1..n -> 1..MaxUnits] : n \in 0..MaxLayers }

Range(s) == { s[i] : i \in 1..Len(s) }

----------------------------------------------------------------------------
(* The constructor's signature and its documentation *)

RequiredParams == {"dnn_feature_columns", "history_feature_list"}

\* the defaults of the signature
Default ==
    [dnn_use_bn       |-> FALSE,
     embedding_size   |-> 8,
     dnn_hidden_units |-> <<256, 128>>,
     dnn_activation   |-> "relu",
     att_hidden_size  |-> <<80, 40>>,
     att_activation   |-> "Dice",
     l2_reg_dnn       |-> "0.0",
     init_std         |-> "0.0001",
     dnn_dropout      |-> "0",
     task             |-> "binary",
     device           |-> "cpu"]

SignatureParams == RequiredParams \cup DOMAIN Default

\* the parameters the class docstring documents
DocumentedParams ==
    {"dnn_feature_columns", "history_feature_list", "dnn_use_bn",
     "dnn_hidden_units", "dnn_activation", "att_hidden_size",
     "att_activation", "att_weight_normalization", "l2_reg_dnn",
     "l2_reg_embedding", "dnn_dropout", "init_std", "seed", "task"}

\* a non-default value a caller passes for a keyword
Passed ==
    [embedding_size           |-> 4,
     dnn_activation           |-> "prelu",
     att_hidden_size          |-> <<64, 16>>,
     att_activation           |-> "sigmoid",
     att_weight_normalization |-> TRUE,
     l2_reg_dnn               |-> "1e-5",
     l2_reg_embedding         |-> "1e-5",
     init_std                 |-> "0.001",
     dnn_dropout              |-> "0.5",
     seed                     |-> 1024,
     task                     |-> "regression",
     device                   |-> "cuda:0"]

OptionalNames == (SignatureParams \cup DocumentedParams) \ RequiredParams

KwNameSets == { names \in SUBSET OptionalNames : Cardinality(names) <= MaxKwargs }

\* Python's binding of a call's keyword arguments to the signature
Accepts(kw) == DOMAIN kw \subseteq SignatureParams

Bind(kw) == [n \in SignatureParams |-> IF n \in DOMAIN kw THEN kw[n] ELSE Default[n]]

NoError == [type |-> "none", line |-> 0]

----------------------------------------------------------------------------
(* __init__, lines 58-103, as functions of the bound parameters p *)

sparse_feature_columns(p) ==
    LET isSparse(x) == x.class = "SparseFeat"
    IN  SelectSeq(p.dnn_feature_columns, isSparse)

varlen_sparse_feature_columns(p) ==
    LET isVarLen(x) == x.class = "VarLenSparseFeat"
    IN  SelectSeq(p.dnn_feature_columns, isVarLen)

history_fc_names(p) ==
    LET xs == p.history_feature_list
    IN  [i \in 1..Len(xs) |-> "hist_" \o xs[i]]

\* the loop of lines 64-69
loop_history_feature_columns(p) ==
    LET isHist(fc) == fc.name \in Range(history_fc_names(p))
    IN  SelectSeq(varlen_sparse_feature_columns(p), isHist)

loop_sparse_varlen_feature_columns(p) ==
    LET notHist(fc) == fc.name \notin Range(history_fc_names(p))
    IN  SelectSeq(varlen_sparse_feature_columns(p), notHist)

\* lines 71-72 assign both lists again, after the loop
history_feature_columns(p) == <<>>

sparse_varlen_feature_columns(p) == <<>>

\* the arguments of an embedding_lookup call
LookupCall(columns, return_feat_list, mask_feat_list) ==
    [columns |-> columns, return_feat_list |-> return_feat_list,
     mask_feat_list |-> mask_feat_list]

query_emb_list(p) ==
    LookupCall(sparse_feature_columns(p), p.history_feature_list, p.history_feature_list)

keys_emb_list(p) ==
    LookupCall(history_feature_columns(p), history_fc_names(p), history_fc_names(p))

dnn_input_emb_list(p) ==
    LookupCall(sparse_feature_columns(p), <<>>, p.history_feature_list)

sequence_embed_dict(p) ==
    LookupCall(sparse_varlen_feature_columns(p), <<>>, <<>>)

\* super(DIN, self).__init__(...), lines 52-56
BaseModel_init(p) ==
    [linear_feature_columns |-> <<>>,
     dnn_feature_columns    |-> p.dnn_feature_columns,
     embedding_size         |-> p.embedding_size,
     dnn_hidden_units       |-> p.dnn_hidden_units,
     l2_reg_linear          |-> 0,
     l2_reg_dnn             |-> p.l2_reg_dnn,
     init_std               |-> p.init_std,
     dnn_dropout            |-> p.dnn_dropout,
     dnn_activation         |-> p.dnn_activation,
     task                   |-> p.task,
     device                 |-> p.device]

AttentionSequencePoolingLayer(p) ==
    [att_hidden_units |-> p.att_hidden_size,
     embedding_dim    |-> p.embedding_size,
     activation       |-> p.att_activation]

\* the keyword arguments __init__ hands to DNN(...)
DNN(p) ==
    [inputs_dim   |-> [dnn_feature_columns |-> p.dnn_feature_columns,
                       embedding_size      |-> p.embedding_size],
     hidden_units |-> p.dnn_hidden_units,
     activation   |-> p.dnn_activation,
     dropout_rate |-> p.dnn_dropout,
     l2_reg       |-> p.l2_reg_dnn]

\* nn.Linear(dnn_hidden_units[-1], 1, bias=False); needs a last element
dnn_linear(p) ==
    [in_features  |-> p.dnn_hidden_units[Len(p.dnn_hidden_units)],
     out_features |-> 1,
     bias         |-> FALSE]

\* the instance's fields once __init__ has run to its end
Instance(p) ==
    [base           |-> BaseModel_init(p),
     query_emb      |-> T("cat", <<T("query_emb_list", <<>>)>>),
     keys_emb       |-> T("cat", <<T("keys_emb_list", <<>>)>>),
     keys_length    |-> T("ones", <<T("query_emb.size(0)", <<>>)>>),
     deep_input_emb |-> T("cat", <<T("dnn_input_emb_list+sequence_embed_list", <<>>)>>),
     atten          |-> AttentionSequencePoolingLayer(p),
     dnn            |-> DNN(p),
     dnn_linear     |-> dnn_linear(p)]

Lookups(p) ==
    [query    |-> query_emb_list(p),
     keys     |-> keys_emb_list(p),
     dnn      |-> dnn_input_emb_list(p),
     sequence |-> sequence_embed_dict(p)]

----------------------------------------------------------------------------
(* State machine *)

Init ==
    /\ pc = "new"
    /\ kwargs = <<>>
    /\ params = <<>>
    /\ error = NoError
    /\ lookups = <<>>
    /\ self = <<>>
    /\ X = "none"
    /\ calls = <<>>
    /\ dense_value_list = None
    /\ hist = None
    /\ deep_input_emb = None
    /\ dnn_input = None
    /\ dnn_output = None
    /\ dnn_logit = None
    /\ y_pred = None
    /\ result = None

\* DIN(dnn_feature_columns, history_feature_list, **kw)
__init__ ==
    /\ pc = "new"
    /\ \E cols \in ColumnLists, hl \in HistLists, names \in KwNameSets,
          bn \in BOOLEAN, hu \in HiddenUnitLists :
          LET kw == [n \in names \cup RequiredParams |->
                        CASE n = "dnn_feature_columns"  -> cols
                          [] n = "history_feature_list" -> hl
                          [] n = "dnn_use_bn"           -> bn
                          [] n = "dnn_hidden_units"     -> hu
                          [] OTHER                      -> Passed[n]]
              p  == Bind(kw)
          IN  /\ kwargs' = kw
              /\ IF ~Accepts(kw)
                 THEN \* unexpected keyword argument
                      /\ pc' = "raised"
                      /\ error' = [type |-> "TypeError", line |-> 38]
                      /\ UNCHANGED <<params, lookups, self>>
                 ELSE IF Len(p.dnn_hidden_units) = 0
                 THEN \* dnn_hidden_units[-1] of an empty list
                      /\ pc' = "raised"
                      /\ error' = [type |-> "IndexError", line |-> 103]
                      /\ params' = p
                      /\ lookups' = Lookups(p)
                      /\ UNCHANGED self
                 ELSE /\ pc' = "constructed"
                      /\ params' = p
                      /\ lookups' = Lookups(p)
                      /\ self' = Instance(p)
                      /\ UNCHANGED error
    /\ UNCHANGED locals

----------------------------------------------------------------------------
(* forward(X), lines 106-121, one step per statement *)

\* a call of forward on a constructed instance; lines 107-108
forward_input_from_feature_columns ==
    /\ pc \in {"constructed", "returned"}
    /\ \E x \in Batches :
          /\ X' = x
          /\ dense_value_list' =
                T("input_from_feature_columns.dense_value_list", <<T(x, <<>>)>>)
    /\ calls' = <<"input_from_feature_columns">>
    /\ hist' = None
    /\ deep_input_emb' = None
    /\ dnn_input' = None
    /\ dnn_output' = None
    /\ dnn_logit' = None
    /\ y_pred' = None
    /\ result' = None
    /\ pc' = "l110"
    /\ UNCHANGED <<kwargs, params, error, lookups, self>>

\* line 110
forward_atten ==
    /\ pc = "l110"
    /\ hist' = T("atten", <<self.query_emb, self.keys_emb, self.keys_length>>)
    /\ calls' = Append(calls, "atten")
    /\ pc' = "l112"
    /\ UNCHANGED <<kwargs, params, error, lookups, self, X, dense_value_list,
                   deep_input_emb, dnn_input, dnn_output, dnn_logit, y_pred, result>>

\* line 112
forward_cat ==
    /\ pc = "l112"
    /\ deep_input_emb' = T("cat", <<self.deep_input_emb, hist>>)
    /\ calls' = Append(calls, "cat")
    /\ pc' = "l113"
    /\ UNCHANGED <<kwargs, params, error, lookups, self, X, dense_value_list,
                   hist, dnn_input, dnn_output, dnn_logit, y_pred, result>>

\* line 113
forward_view ==
    /\ pc = "l113"
    /\ deep_input_emb' = T("view", <<deep_input_emb>>)
    /\ calls' = Append(calls, "view")
    /\ pc' = "l115"
    /\ UNCHANGED <<kwargs, params, error, lookups, self, X, dense_value_list,
                   hist, dnn_input, dnn_output, dnn_logit, y_pred, result>>

\* line 115
forward_combined_dnn_input ==
    /\ pc = "l115"
    /\ dnn_input' = T("combined_dnn_input", <<deep_input_emb, dense_value_list>>)
    /\ calls' = Append(calls, "combined_dnn_input")
    /\ pc' = "l116"
    /\ UNCHANGED <<kwargs, params, error, lookups, self, X, dense_value_list,
                   hist, deep_input_emb, dnn_output, dnn_logit, y_pred, result>>

\* line 116
forward_dnn ==
    /\ pc = "l116"
    /\ dnn_output' = T("dnn", <<dnn_input>>)
    /\ calls' = Append(calls, "dnn")
    /\ pc' = "l117"
    /\ UNCHANGED <<kwargs, params, error, lookups, self, X, dense_value_list,
                   hist, deep_input_emb, dnn_input, dnn_logit, y_pred, result>>

\* forward with the linear layer fed the DNN's input instead of its output
forward_dnn_linear_skips_dnn ==
    /\ pc = "l117"
    /\ dnn_logit' = T("dnn_linear", <<dnn_input>>)
    /\ calls' = Append(calls, "dnn_linear")
    /\ pc' = "l119"
    /\ UNCHANGED <<kwargs, params, error, lookups, self, X, dense_value_list,
                   hist, deep_input_emb, dnn_input, dnn_output, y_pred, result>>

\* line 117
forward_dnn_linear ==
    /\ pc = "l117"
    /\ dnn_logit' = T("dnn_linear", <<dnn_output>>)
    /\ calls' = Append(calls, "dnn_linear")
    /\ pc' = "l119"
    /\ UNCHANGED <<kwargs, params, error, lookups, self, X, dense_value_list,
                   hist, deep_input_emb, dnn_input, dnn_output, y_pred, result>>

\* line 119
forward_out ==
    /\ pc = "l119"
    /\ y_pred' = T("out", <<dnn_logit>>)
    /\ calls' = Append(calls, "out")
    /\ pc' = "l121"
    /\ UNCHANGED <<kwargs, params, error, lookups, self, X, dense_value_list,
                   hist, deep_input_emb, dnn_input, dnn_output, dnn_logit, result>>

\* line 121
forward_return ==
    /\ pc = "l121"
    /\ result' = y_pred
    /\ pc' = "returned"
    /\ UNCHANGED <<kwargs, params, error, lookups, self, X, calls, dense_value_list,
                   hist, deep_input_emb, dnn_input, dnn_output, dnn_logit, y_pred>>

forward ==
    \/ forward_input_from_feature_columns
    \/ forward_atten
    \/ forward_cat
    \/ forward_view
    \/ forward_combined_dnn_input
    \/ forward_dnn
    \/ forward_dnn_linear
    \/ forward_out
    \/ forward_return

Next == __init__ \/ forward

Spec == Init /\ [][Next]_vars

----------------------------------------------------------------------------
(* Properties *)

\* __init__ ran to its end: the instance exists
Constructed == pc \notin {"new", "raised"}

\* the stages of forward, in order
Pipeline == <<"atten", "cat", "view", "combined_dnn_input", "dnn", "dnn_linear", "out">>

IsPrefix(s, t) == Len(s) <= Len(t) /\ \A i \in 1..Len(s) : s[i] = t[i]

StagesRun ==
    LET isStage(c) == c \in Range(Pipeline)
    IN  SelectSeq(calls, isStage)

\* the value of the pipeline on the instance's embeddings and the batch X
PipelineValue ==
    LET pooled   == T("atten", <<self.query_emb, self.keys_emb, self.keys_length>>)
        joined   == T("cat", <<self.deep_input_emb, pooled>>)
        flat     == T("view", <<joined>>)
        dense    == T("input_from_feature_columns.dense_value_list", <<T(X, <<>>)>>)
        combined == T("combined_dnn_input", <<flat, dense>>)
        deep     == T("dnn", <<combined>>)
        logit    == T("dnn_linear", <<deep>>)
    IN  T("out", <<logit>>)

\* C1: forward runs the stages attention pooling, concatenation, flattening,
\* combination with the dense values, DNN, bias-free linear layer and output
\* layer once each and in this order, and what it returns is the output
\* layer's result on that chain; no stage is skipped.
C1_ForwardPipeline ==
    /\ IsPrefix(StagesRun, Pipeline)
    /\ pc = "returned" => StagesRun = Pipeline /\ result = PipelineValue

C1_Witness ==
    /\ pc = "returned"
    /\ X = "X2"
    /\ Len(calls) = 8
    /\ result.op = "out"

\* C2: for every name f of history_feature_list, the VarLenSparseFeat column
\* named "hist_" + f is among the columns handed to the key embedding lookup,
\* and the SparseFeat column named f is among the columns of the query
\* embedding lookup, which is asked to return f.
C2_HistoryColumnsLookedUp ==
    Constructed =>
        \A f \in Range(params.history_feature_list) :
            \A c \in Range(params.dnn_feature_columns) :
                /\ (c.class = "VarLenSparseFeat" /\ c.name = "hist_" \o f)
                      => c \in Range(lookups.keys.columns)
                /\ (c.class = "SparseFeat" /\ c.name = f)
                      => /\ c \in Range(lookups.query.columns)
                         /\ f \in Range(lookups.query.return_feat_list)

\* C3: a constructor call whose keywords are accepted, with dnn_hidden_units
\* a list of positive integers or the empty list, does not raise: it builds
\* the DNN and the final linear layer.
C3_InitCompletes ==
    (pc # "new" /\ Accepts(kwargs)) => pc # "raised"

\* C4: the DNN configuration of an instance built with dnn_use_bn differs
\* from the one built from the same arguments with dnn_use_bn negated.
C4_UseBnConfiguresDNN ==
    Constructed => self.dnn # DNN([params EXCEPT !.dnn_use_bn = ~@])

\* C5: a constructor call that passes only documented parameters as keywords
\* does not end in an unexpected-keyword TypeError.
C5_DocumentedParamsAccepted ==
    (pc # "new" /\ DOMAIN kwargs \subseteq DocumentedParams) => error.type # "TypeError"

====
